---- MODULE Spec2Model ----
(***************************************************************************)
(* floppy_disk_image_file_to_serial_install: a disk image is loaded,       *)
(* its sectors are reordered track by track, and a script of apple ][      *)
(* monitor commands is written to stdout: the fill commands of one track   *)
(* (with a ramp), the fill commands of the RWTS client program, and the    *)
(* command that runs it.                                                   *)
(*                                                                         *)
(* The model keeps the program's layout with one scale: a sector holds     *)
(* SectorBytes bytes instead of 0x0100, so a track holds 16 * SectorBytes  *)
(* bytes instead of 0x1000. Everything else (35 tracks of 16 sectors, the  *)
(* target addresses, the client program, the ramp) is the program's.       *)
(* Positions are the program's 0-based offsets; a TLA+ sequence is         *)
(* 1-based, so offset p of a slice s is s[p + 1].                          *)
(***************************************************************************)
EXTENDS Integers, Sequences, FiniteSets

\* Bytes of a sector in the model (0x0100 in the program). It is larger than
\* the default segment size 8, as in the program, so that an image can miss
\* more than one segment of its last sector.
SectorBytes == 9

\* Largest segment size tried besides the track size itself.
MaxSegmentSize == 18

\* Encoder inputs of SpecEncoder: source length, start offset, count.
MaxSourceLen == 3
MaxStartPos == 4
MaxByteCount == 4

\* 0x00001000 / 0x00000100 in diskImageStartPosOfTrackSector.
SectorsPerTrack == 16

\* Bytes of a track: 0x1000 in the program.
TrackBytes == SectorsPerTrack * SectorBytes

\* The reorder loop's bound 0x23 and the track loader's bound 0x22.
NumTracks == 35
MaxTrackNum == 34

\* const SEGMENT_SIZE = 8 of main.
DefaultSegmentSize == 8

\* Target addresses of the track buffer and of the client program.
TrackBufferAddress == 8192
ClientAddress == 3072

\* LINE_START_PAD_LENGTH
LineStartPadLength == 16

FullImageLen == NumTracks * TrackBytes

VARIABLES
    pc,                   \* where the program is
    fileLen, filePattern, \* the image file: its length and its content
    trackNum,             \* the track argument
    SEGMENT_SIZE,         \* the segment size handed to the loaders
    diskImage,            \* the image in memory
    track,                \* the reorder loop's track
    bytesWritten, targetStartAddress, sourceBytesStartPos,
    firstCommand, rampLine, \* the track loader's flag and its place in the ramp
    clientProgram,        \* the patched client program
    out,                  \* the command lines written to stdout, in order
    err                   \* the panic that ended the program, or "none"

vars == << pc, fileLen, filePattern, trackNum, SEGMENT_SIZE, diskImage, track,
           bytesWritten, targetStartAddress, sourceBytesStartPos,
           firstCommand, rampLine, clientProgram, out, err >>

Min(a, b) == IF a < b THEN a ELSE b
Max(a, b) == IF a > b THEN a ELSE b

----------------------------------------------------------------------------
\* The image file.

\* Byte at offset i of a file of the given content: "offset" has the low byte
\* of the offset (all bytes of a track, and of neighbouring tracks, differ),
\* "mixed" another spread, "blank" the same byte everywhere.
FileByte(pattern, i) ==
    CASE pattern = "offset" -> i % 256
      [] pattern = "mixed"  -> (7 * i + 3 * (i \div SectorBytes) + 11) % 256
      [] OTHER              -> 229

\* readDiskImageFromFile: every byte of the file, appended in order.
readDiskImageFromFile(len, pattern) ==
    [i \in 1..len |-> FileByte(pattern, i - 1)]

FileImage == readDiskImageFromFile(fileLen, filePattern)

----------------------------------------------------------------------------
\* Sector shuffling.

\* Mutant: the two factors exchanged.
diskImageStartPosFactorsExchanged(t, s) == SectorBytes * t + TrackBytes * s

diskImageStartPosOfTrackSector(t, s) == TrackBytes * t + SectorBytes * s

\* img with the n bytes at offset pos replaced by bytes[1..n].
PutBytes(img, pos, bytes, n) ==
    IF n <= 0 THEN img
    ELSE SubSeq(img, 1, pos) \o SubSeq(bytes, 1, n)
         \o SubSeq(img, pos + n + 1, Len(img))

\* readSectorDataToBuffer: the sector's bytes; an index past the image panics.
readSectorDataToBuffer(img, t, s) ==
    LET pos == diskImageStartPosOfTrackSector(t, s)
    IN  [ok  |-> pos + SectorBytes <= Len(img),
         buf |-> SubSeq(img, pos + 1, Min(pos + SectorBytes, Len(img)))]

\* writeSectorDataFromBuffer: byte by byte, so a panic leaves the bytes
\* written before it.
writeSectorDataFromBuffer(buf, img, t, s) ==
    LET pos == diskImageStartPosOfTrackSector(t, s)
        n   == Max(0, Min(SectorBytes, Len(img) - pos))
    IN  [ok  |-> n = SectorBytes,
         img |-> PutBytes(img, pos, buf, n)]

\* Mutant: source and destination exchanged.
copySectorDataExchanged(img, t, sourceSector, destinationSector) ==
    LET src == TrackBytes * t + SectorBytes * destinationSector
        dst == TrackBytes * t + SectorBytes * sourceSector
        n   == Max(0, Min(SectorBytes, Len(img) - Max(src, dst)))
    IN  [ok  |-> n = SectorBytes,
         img |-> PutBytes(img, dst, SubSeq(img, src + 1, src + n), n)]

\* copySectorDataInImage: byte by byte until source or destination is past
\* the image.
copySectorDataInImage(img, t, sourceSector, destinationSector) ==
    LET src == diskImageStartPosOfTrackSector(t, sourceSector)
        dst == diskImageStartPosOfTrackSector(t, destinationSector)
        n   == Max(0, Min(SectorBytes, Len(img) - Max(src, dst)))
    IN  [ok  |-> n = SectorBytes,
         img |-> PutBytes(img, dst, SubSeq(img, src + 1, src + n), n)]

\* One rotation group of convertDiskImageFromProdosOrderToDos33Order: sector
\* a to the buffer, sector b over sector a, the buffer over sector b.
RotationGroup(r, t, a, b) ==
    IF ~r.ok THEN r
    ELSE LET rd == readSectorDataToBuffer(r.img, t, a)
         IN  IF ~rd.ok THEN [ok |-> FALSE, img |-> r.img]
             ELSE LET cp == copySectorDataInImage(r.img, t, b, a)
                  IN  IF ~cp.ok THEN cp
                      ELSE writeSectorDataFromBuffer(rd.buf, cp.img, t, b)

\* Mutant: rotation group 1 run a second time after group 7.
ReorderTrackBodyGroupTwice(img, t) ==
    RotationGroup(
     RotationGroup(
      RotationGroup(
       RotationGroup(
        RotationGroup(
         RotationGroup(
          RotationGroup(
           RotationGroup([ok |-> TRUE, img |-> img], t, 1, 14),
           t, 2, 13),
          t, 3, 12),
         t, 4, 11),
        t, 5, 10),
       t, 6, 9),
      t, 7, 8),
     t, 1, 14)

\* The body of the reorder loop for one track: rotation groups 1 to 7.
ReorderTrackBody(img, t) ==
    RotationGroup(
     RotationGroup(
      RotationGroup(
       RotationGroup(
        RotationGroup(
         RotationGroup(
          RotationGroup([ok |-> TRUE, img |-> img], t, 1, 14),
          t, 2, 13),
         t, 3, 12),
        t, 4, 11),
       t, 5, 10),
      t, 6, 9),
     t, 7, 8)

----------------------------------------------------------------------------
\* Command lines.

HexDigits == << "0", "1", "2", "3", "4", "5", "6", "7",
                "8", "9", "A", "B", "C", "D", "E", "F" >>

\* %X of a number >= 0, as a sequence of characters.
RECURSIVE FormatHex(_)
FormatHex(n) ==
    IF n < 16 THEN << HexDigits[n + 1] >>
    ELSE FormatHex(n \div 16) \o << HexDigits[(n % 16) + 1] >>

\* fmt.Sprintf("%02X", n) for n >= 0.
Sprintf02X(n) ==
    LET h == FormatHex(n) IN IF Len(h) < 2 THEN << "0" >> \o h ELSE h

generateLineStartPad == [i \in 1..LineStartPadLength |-> " "]

generateMemoryAddress(targetAddress) ==
    IF targetAddress < 0 THEN << >> ELSE Sprintf02X(targetAddress)

\* "%02X " for every byte but the last, "%02X" for the last: a byte prints as
\* two digits, so byte k (from 0) has its digits at 3k and 3k + 1 and, unless
\* it is the last, a space at 3k + 2.
generateByteWriteGroupStringFromBytes(byteWriteGroup) ==
    [i \in 1..(3 * Len(byteWriteGroup) - 1) |->
        LET b == byteWriteGroup[((i - 1) \div 3) + 1]
        IN  CASE (i - 1) % 3 = 0 -> Sprintf02X(b)[1]
              [] (i - 1) % 3 = 1 -> Sprintf02X(b)[2]
              [] OTHER           -> " "]

\* Mutant: the end clamped one byte before the end of the source.
SegmentEndPosClampedShort(sourceBytes, startPos, writeByteCount) ==
    IF startPos + writeByteCount > Len(sourceBytes)
    THEN Max(startPos, Len(sourceBytes) - 1)
    ELSE startPos + writeByteCount

\* The end of the slice writeCommandsToFillAppleMemorySegment takes.
SegmentEndPos(sourceBytes, startPos, writeByteCount) ==
    IF startPos + writeByteCount > Len(sourceBytes)
    THEN Len(sourceBytes)
    ELSE startPos + writeByteCount

\* sourceBytes[startPos : endPos] panics unless 0 <= startPos <= endPos.
SegmentSliceOk(sourceBytes, startPos, writeByteCount) ==
    /\ 0 <= startPos
    /\ startPos <= SegmentEndPos(sourceBytes, startPos, writeByteCount)

\* writeCommandsToFillAppleMemorySegment: the line it prints ("%s%s:%s\r":
\* pad, address, ":", bytes, carriage return), with the call it comes from:
\* site is the place of the call ("ramp", "main", "client", "call"), target,
\* start and count are its arguments.
writeCommandsToFillAppleMemorySegment(site, sourceBytes, targetAddress, startPos, writeByteCount) ==
    [site    |-> site,
     target  |-> targetAddress,
     start   |-> startPos,
     count   |-> writeByteCount,
     pad     |-> generateLineStartPad,
     address |-> generateMemoryAddress(targetAddress),
     sep     |-> ":",
     text    |-> generateByteWriteGroupStringFromBytes(
                   SubSeq(sourceBytes, startPos + 1,
                          SegmentEndPos(sourceBytes, startPos, writeByteCount))),
     tail    |-> "\r"]

\* The line executeClient prints: "%sC00G\r".
ExecuteLine ==
    [site    |-> "execute",
     target  |-> ClientAddress,
     start   |-> 0,
     count   |-> 0,
     pad     |-> generateLineStartPad,
     address |-> << >>,
     sep     |-> "",
     text    |-> << "C", "0", "0", "G" >>,
     tail    |-> "\r"]

----------------------------------------------------------------------------
\* The client program.

trackNumArray ==
    << 0, 1, 2, 3, 4, 5, 6, 7, 8, 9, 10, 11, 12, 13, 14, 15,
       16, 17, 18, 19, 20, 21, 22, 23, 24, 25, 26, 27, 28, 29, 30, 31,
       32, 33, 34 >>

\* trackNumArray[trackNum] panics unless the index is in the array.
TrackNumLookupOk(t) == 0 <= t /\ t < Len(trackNumArray)

\* Mutant: the entry after the track's.
TrackNumByteNext(t) == IF t + 2 <= Len(trackNumArray) THEN trackNumArray[t + 2] ELSE 0

TrackNumByte(t) == trackNumArray[t + 1]

\* The clientProgram literal with trackNumByte in its place.
ClientProgramBytes(trackNumByte) ==
    << 169, 12,
       160, 28,
       32, 217, 3,
       176, 18,
       169, 15,
       205, 33, 12,
       240, 10,
       238, 33, 12,
       238, 37, 12,
       240, 232,
       208, 230,
       96,
       0,
       1, 96, 1, 0, trackNumByte, 0,
       48, 12,
       0, 32,
       0, 0, 2,
       0, 0, 96, 1,
       0, 0, 0,
       0, 1, 239, 216 >>

----------------------------------------------------------------------------
\* The program's steps.

\* A call of writeCommandsToFillAppleMemorySegment from a loader: the line is
\* appended to the output, or the slice expression panics and nothing is
\* printed.
FillOk(sourceBytes) ==
    SegmentSliceOk(sourceBytes, sourceBytesStartPos, SEGMENT_SIZE)

\* One iteration of the reorder loop; the loop ends after track 0x22.
ReorderTrack ==
    /\ pc = "reorder"
    /\ LET r == ReorderTrackBody(diskImage, track)
       IN  /\ diskImage' = r.img
           /\ track' = IF r.ok THEN track + 1 ELSE track
           /\ pc' = IF ~r.ok THEN "panic"
                    ELSE IF track + 1 < NumTracks THEN "reorder"
                    ELSE "trackLoader"
           /\ err' = IF r.ok THEN err ELSE "index out of range"
    /\ UNCHANGED << fileLen, filePattern, trackNum, SEGMENT_SIZE, bytesWritten,
                    targetStartAddress, sourceBytesStartPos, firstCommand,
                    rampLine, clientProgram, out >>

\* Mutant: the upper bound one too high.
IllegalTrackNumberLax(t) == t < 0 \/ t > MaxTrackNum + 1

\* The track loader's range check: trackNum < 0x0 || trackNum > 0x22.
IllegalTrackNumber(t) == t < 0 \/ t > MaxTrackNum

\* writeCommandsToLoadDiskTrackToMemory up to its loop: the range check and
\* the locals.
TrackLoaderEntry ==
    /\ pc = "trackLoader"
    /\ IF IllegalTrackNumber(trackNum)
       THEN /\ pc' = "panic"
            /\ err' = "illegal track number encountered"
            /\ UNCHANGED << bytesWritten, targetStartAddress,
                            sourceBytesStartPos, firstCommand, rampLine >>
       ELSE /\ pc' = "trackLoop"
            /\ err' = err
            /\ bytesWritten' = 0
            /\ targetStartAddress' = TrackBufferAddress
            /\ sourceBytesStartPos' = diskImageStartPosOfTrackSector(trackNum, 0)
            /\ firstCommand' = TRUE
            /\ rampLine' = 0
    /\ UNCHANGED << fileLen, filePattern, trackNum, SEGMENT_SIZE, diskImage,
                    track, clientProgram, out >>

\* Mutant: the ramp without its last call.
RampCallsOneLess == 9 - 1

\* The calls made while firstCommand is set (lines 270 to 278).
RampCalls == 9

\* Mutant: the ramp starting one byte higher.
RampByteCountFromSeven(i) == SEGMENT_SIZE - 7 + i

\* The byte count of the ramp call at place i (from 0) of the first iteration.
RampByteCount(i) == SEGMENT_SIZE - 8 + i

\* One of the calls made while firstCommand is set.
RampCommand ==
    /\ pc = "trackLoop"
    /\ bytesWritten < TrackBytes
    /\ firstCommand
    /\ IF SegmentSliceOk(diskImage, sourceBytesStartPos, RampByteCount(rampLine))
       THEN /\ out' = Append(out, writeCommandsToFillAppleMemorySegment(
                        "ramp", diskImage, targetStartAddress,
                        sourceBytesStartPos, RampByteCount(rampLine)))
            /\ rampLine' = rampLine + 1
            /\ firstCommand' = (rampLine + 1 < RampCalls)
            /\ UNCHANGED << pc, err >>
       ELSE /\ pc' = "panic"
            /\ err' = "slice bounds out of range"
            /\ UNCHANGED << out, rampLine, firstCommand >>
    /\ UNCHANGED << fileLen, filePattern, trackNum, SEGMENT_SIZE, diskImage,
                    track, bytesWritten, targetStartAddress,
                    sourceBytesStartPos, clientProgram >>

\* The call that ends every iteration, and the loop's test after it.
MainCommand ==
    /\ pc = "trackLoop"
    /\ bytesWritten < TrackBytes
    /\ ~firstCommand
    /\ IF FillOk(diskImage)
       THEN /\ out' = Append(out, writeCommandsToFillAppleMemorySegment(
                        "main", diskImage, targetStartAddress,
                        sourceBytesStartPos, SEGMENT_SIZE))
            /\ targetStartAddress' = targetStartAddress + SEGMENT_SIZE
            /\ bytesWritten' = bytesWritten + SEGMENT_SIZE
            /\ sourceBytesStartPos' = sourceBytesStartPos + SEGMENT_SIZE
            /\ pc' = IF bytesWritten + SEGMENT_SIZE < TrackBytes
                     THEN "trackLoop" ELSE "clientLoader"
            /\ err' = err
       ELSE /\ pc' = "panic"
            /\ err' = "slice bounds out of range"
            /\ UNCHANGED << out, targetStartAddress, bytesWritten,
                            sourceBytesStartPos >>
    /\ UNCHANGED << fileLen, filePattern, trackNum, SEGMENT_SIZE, diskImage,
                    track, firstCommand, rampLine, clientProgram >>

\* writeCommandsToLoadRWTSClientProgramToMemory up to its loop: the lookup of
\* the track byte, the program and the locals.
ClientLoaderEntry ==
    /\ pc = "clientLoader"
    /\ IF TrackNumLookupOk(trackNum)
       THEN /\ clientProgram' = ClientProgramBytes(TrackNumByte(trackNum))
            /\ sourceBytesStartPos' = 0
            /\ bytesWritten' = 0
            /\ targetStartAddress' = ClientAddress
            /\ pc' = "clientLoop"
            /\ err' = err
       ELSE /\ pc' = "panic"
            /\ err' = "index out of range"
            /\ UNCHANGED << clientProgram, sourceBytesStartPos, bytesWritten,
                            targetStartAddress >>
    /\ UNCHANGED << fileLen, filePattern, trackNum, SEGMENT_SIZE, diskImage,
                    track, firstCommand, rampLine, out >>

\* One iteration of the client loader's loop, and the loop's test after it.
ClientCommand ==
    /\ pc = "clientLoop"
    /\ bytesWritten < Len(clientProgram)
    /\ IF FillOk(clientProgram)
       THEN /\ out' = Append(out, writeCommandsToFillAppleMemorySegment(
                        "client", clientProgram, targetStartAddress,
                        sourceBytesStartPos, SEGMENT_SIZE))
            /\ targetStartAddress' = targetStartAddress + SEGMENT_SIZE
            /\ bytesWritten' = bytesWritten + SEGMENT_SIZE
            /\ sourceBytesStartPos' = sourceBytesStartPos + SEGMENT_SIZE
            /\ pc' = IF bytesWritten + SEGMENT_SIZE < Len(clientProgram)
                     THEN "clientLoop" ELSE "executeClient"
            /\ err' = err
       ELSE /\ pc' = "panic"
            /\ err' = "slice bounds out of range"
            /\ UNCHANGED << out, targetStartAddress, bytesWritten,
                            sourceBytesStartPos >>
    /\ UNCHANGED << fileLen, filePattern, trackNum, SEGMENT_SIZE, diskImage,
                    track, firstCommand, rampLine, clientProgram >>

\* executeClient, and the end of main.
ExecuteClient ==
    /\ pc = "executeClient"
    /\ out' = Append(out, ExecuteLine)
    /\ pc' = "done"
    /\ UNCHANGED << fileLen, filePattern, trackNum, SEGMENT_SIZE, diskImage,
                    track, bytesWritten, targetStartAddress,
                    sourceBytesStartPos, firstCommand, rampLine,
                    clientProgram, err >>

\* One call of writeCommandsToFillAppleMemorySegment on its own.
EncoderCall ==
    /\ pc = "encoder"
    /\ IF FillOk(diskImage)
       THEN /\ out' = Append(out, writeCommandsToFillAppleMemorySegment(
                        "call", diskImage, targetStartAddress,
                        sourceBytesStartPos, SEGMENT_SIZE))
            /\ pc' = "done"
            /\ err' = err
       ELSE /\ pc' = "panic"
            /\ err' = "slice bounds out of range"
            /\ out' = out
    /\ UNCHANGED << fileLen, filePattern, trackNum, SEGMENT_SIZE, diskImage,
                    track, bytesWritten, targetStartAddress,
                    sourceBytesStartPos, firstCommand, rampLine,
                    clientProgram >>

----------------------------------------------------------------------------
\* The inputs.

TrackArguments == -1..(NumTracks + 1)

SegmentSizes == (1..MaxSegmentSize) \cup {TrackBytes}

FilePatterns == {"offset", "mixed", "blank"}

\* Full images, one with bytes after the last track, images that miss the end
\* of the last sector (the reorder pass reads up to sector 0x0E of track
\* 0x22), and images the reorder pass runs out of.
FileLengths ==
    {FullImageLen + 2, FullImageLen, FullImageLen - 1, FullImageLen - 3,
     FullImageLen - DefaultSegmentSize, FullImageLen - SectorBytes,
     FullImageLen - SectorBytes - 1, FullImageLen - TrackBytes, TrackBytes, 0}

\* The tracks every segment size and every image is tried with, and the
\* segment sizes every image is tried with.
SampleTracks == {0, MaxTrackNum}

SampleSegmentSizes == {DefaultSegmentSize, 12}

\* The locals before their functions set them.
LocalsUnset ==
    /\ track = 0
    /\ bytesWritten = 0
    /\ targetStartAddress = 0
    /\ sourceBytesStartPos = 0
    /\ firstCommand = FALSE
    /\ rampLine = 0
    /\ clientProgram = << >>
    /\ out = << >>
    /\ err = "none"

\* main after readDiskImageFromFile: every track argument with the default
\* segment size and a full image, the sample tracks with every segment size
\* and a full image, and the sample tracks and segment sizes with every image.
Init ==
    /\ pc = "reorder"
    /\ \/ /\ trackNum \in TrackArguments
          /\ SEGMENT_SIZE = DefaultSegmentSize
          /\ fileLen = FullImageLen
          /\ filePattern = "offset"
       \/ /\ trackNum \in SampleTracks
          /\ SEGMENT_SIZE \in SegmentSizes
          /\ fileLen \in {FullImageLen, FullImageLen + 2}
          /\ filePattern = "offset"
       \/ /\ trackNum \in SampleTracks
          /\ SEGMENT_SIZE \in SampleSegmentSizes
          /\ fileLen \in FileLengths
          /\ filePattern \in FilePatterns
    /\ diskImage = readDiskImageFromFile(fileLen, filePattern)
    /\ LocalsUnset

Next ==
    \/ ReorderTrack
    \/ TrackLoaderEntry
    \/ RampCommand
    \/ MainCommand
    \/ ClientLoaderEntry
    \/ ClientCommand
    \/ ExecuteClient

Spec == Init /\ [][Next]_vars

\* The client program loader called with any track and any segment size,
\* and executeClient after it.
ClientSegmentSizes ==
    (1..MaxSegmentSize)
    \cup { Len(ClientProgramBytes(0)) + d : d \in {0, 1, 8} }

InitClient ==
    /\ pc = "clientLoader"
    /\ trackNum \in TrackArguments
    /\ SEGMENT_SIZE \in ClientSegmentSizes
    /\ fileLen = 0
    /\ filePattern = "blank"
    /\ diskImage = << >>
    /\ LocalsUnset

NextClient ==
    \/ ClientLoaderEntry
    \/ ClientCommand
    \/ ExecuteClient

SpecClient == InitClient /\ [][NextClient]_vars

\* The memory segment encoder called with any source, start and count.
EncoderByteValues == {0, 171, 255}

EncoderSources ==
    UNION { [1..n -> EncoderByteValues] : n \in 0..MaxSourceLen }

InitEncoder ==
    /\ pc = "encoder"
    /\ trackNum = 0
    /\ fileLen = 0
    /\ filePattern = "blank"
    /\ diskImage \in EncoderSources
    /\ SEGMENT_SIZE \in 0..MaxByteCount
    /\ track = 0
    /\ bytesWritten = 0
    /\ targetStartAddress \in {-1, 0, TrackBufferAddress}
    /\ sourceBytesStartPos \in 0..MaxStartPos
    /\ firstCommand = FALSE
    /\ rampLine = 0
    /\ clientProgram = << >>
    /\ out = << >>
    /\ err = "none"

NextEncoder == EncoderCall

SpecEncoder == InitEncoder /\ [][NextEncoder]_vars

----------------------------------------------------------------------------
\* Reading the output back.

HexValue(ch) == CHOOSE d \in 0..15 : HexDigits[d + 1] = ch

IsHexDigit(ch) == \E d \in 0..15 : HexDigits[d + 1] = ch

\* The number a string of hexadecimal digits stands for.
RECURSIVE ParseHex(_)
ParseHex(chars) ==
    IF chars = << >> THEN 0
    ELSE 16 * ParseHex(SubSeq(chars, 1, Len(chars) - 1))
         + HexValue(chars[Len(chars)])

\* A byte list as the monitor reads it: two digits a byte, one space between
\* two bytes, nothing after the last.
WellFormedBytes(text) ==
    /\ text = << >> \/ Len(text) % 3 = 2
    /\ \A i \in 1..Len(text) :
          IF i % 3 = 0 THEN text[i] = " " ELSE IsHexDigit(text[i])

\* The bytes a command line carries, and the address it fills from.
Payload(line) ==
    [k \in 1..((Len(line.text) + 1) \div 3) |->
        16 * HexValue(line.text[3 * k - 2]) + HexValue(line.text[3 * k - 1])]

Address(line) == ParseHex(line.address)

\* A fill command as the monitor reads it.
WellFormedFill(line) ==
    /\ line.pad = [i \in 1..16 |-> " "]
    /\ line.address # << >>
    /\ \A i \in 1..Len(line.address) : IsHexDigit(line.address[i])
    /\ line.sep = ":"
    /\ WellFormedBytes(line.text)
    /\ line.tail = "\r"

LinesOf(site) == SelectSeq(out, LAMBDA line : line.site = site)

\* The payloads of lines[lo..hi], one after the other.
RECURSIVE PayloadsFrom(_, _, _)
PayloadsFrom(lines, lo, hi) ==
    IF lo > hi THEN << >>
    ELSE IF lo = hi THEN Payload(lines[lo])
    ELSE LET mid == (lo + hi) \div 2
         IN  PayloadsFrom(lines, lo, mid) \o PayloadsFrom(lines, mid + 1, hi)

Payloads(lines) == PayloadsFrom(lines, 1, Len(lines))

\* Where the program is.
ReorderPanicked == pc = "panic" /\ track < NumTracks
ReorderFinished == track = NumTracks
TrackLoaderReturned ==
    \/ pc \in {"clientLoader", "clientLoop", "executeClient", "done"}
    \/ pc = "panic" /\ clientProgram # << >>
TrackLoaderPanicked ==
    /\ pc = "panic"
    /\ track = NumTracks
    /\ clientProgram = << >>
    /\ err \in {"illegal track number encountered", "slice bounds out of range"}
TrackLoaderEnded == TrackLoaderReturned \/ TrackLoaderPanicked

\* The linear offset of a byte of a sector of a track.
OffsetOf(t, s, b) == (t * SectorsPerTrack + s) * SectorBytes + b

ValidTrack == trackNum \in 0..34
SegmentDividesTrack == TrackBytes % SEGMENT_SIZE = 0
ImageCoversTrack == Len(diskImage) >= OffsetOf(trackNum + 1, 0, 0)

\* The slice of the image the track loader was given for its track.
TrackSlice ==
    SubSeq(diskImage, OffsetOf(trackNum, 0, 0) + 1, OffsetOf(trackNum + 1, 0, 0))

\* The k-th main command (from 0) fills from 0x2000 + k*s with the bytes at
\* source offset t*TrackBytes + k*s.
MainCommandsInPlace ==
    LET main == LinesOf("main")
    IN  \A k \in 1..Len(main) :
            /\ WellFormedFill(main[k])
            /\ Address(main[k]) = TrackBufferAddress + (k - 1) * SEGMENT_SIZE
            /\ main[k].start = OffsetOf(trackNum, 0, 0) + (k - 1) * SEGMENT_SIZE

MainCommandsCarryTrack ==
    /\ Payloads(LinesOf("main")) = TrackSlice
    /\ MainCommandsInPlace

----------------------------------------------------------------------------
C2_AsStated ==
    (TrackLoaderEnded /\ ValidTrack /\ SegmentDividesTrack)
        => /\ ~TrackLoaderPanicked
           /\ Len(LinesOf("main")) = TrackBytes \div SEGMENT_SIZE
           /\ Len(LinesOf("ramp")) = 8

\* C2 amended: for every valid track, every segment size of at least 8 that
\* divides the track size and an image that covers the track, the track
\* loader does not panic and returns having emitted TrackBytes/s main commands
\* and 9 ramp commands, TrackBytes/s + 9 lines in all.
C2_CommandCounts ==
    (ValidTrack /\ SegmentDividesTrack /\ SEGMENT_SIZE >= 8 /\ ImageCoversTrack)
        => /\ ~TrackLoaderPanicked
           /\ TrackLoaderReturned =>
                /\ Len(LinesOf("main")) = TrackBytes \div SEGMENT_SIZE
                /\ Len(LinesOf("ramp")) = 9
                /\ Len(LinesOf("main")) + Len(LinesOf("ramp"))
                     = TrackBytes \div SEGMENT_SIZE + 9
                /\ pc = "clientLoader" =>
                     Len(out) = TrackBytes \div SEGMENT_SIZE + 9

C2_Witness ==
    /\ pc = "clientLoader"
    /\ ValidTrack
    /\ SEGMENT_SIZE = 16
    /\ Len(out) = TrackBytes \div 16 + 9

----------------------------------------------------------------------------
\* The sector's bytes in an image.
Sector(img, t, s) ==
    SubSeq(img, OffsetOf(t, s, 0) + 1, OffsetOf(t, s, 0) + SectorBytes)

SwapPairs ==
    { << 1, 14 >>, << 2, 13 >>, << 3, 12 >>, << 4, 11 >>,
      << 5, 10 >>, << 6, 9 >>, << 7, 8 >> }

\* The sector's bytes in the image file.
FileSector(t, s) ==
    [k \in 1..SectorBytes |-> FileByte(filePattern, OffsetOf(t, s, k - 1))]

\* Track t of the image in memory is track t of the file with every pair of
\* sectors swapped and sectors 0 and 15 as they were.
TrackSwapped(t) ==
    /\ \A p \in SwapPairs :
          /\ Sector(diskImage, t, p[1]) = FileSector(t, p[2])
          /\ Sector(diskImage, t, p[2]) = FileSector(t, p[1])
    /\ Sector(diskImage, t, 0) = FileSector(t, 0)
    /\ Sector(diskImage, t, 15) = FileSector(t, 15)

\* C3: once the reorder pass has run over a full image, in every track 0..34
\* the sectors of each pair (1,14), (2,13), (3,12), (4,11), (5,10), (6,9),
\* (7,8) hold each other's original bytes, and sectors 0 and 15 hold their
\* own.
C3_ReorderSwapsPairs ==
    (ReorderFinished /\ fileLen >= FullImageLen)
        => \A t \in 0..(NumTracks - 1) : TrackSwapped(t)

C3_Witness ==
    /\ pc = "trackLoader"
    /\ ReorderFinished
    /\ fileLen = FullImageLen
    /\ filePattern = "mixed"
    /\ Sector(diskImage, MaxTrackNum, 1) # FileSector(MaxTrackNum, 1)
    /\ Sector(diskImage, MaxTrackNum, 1) = FileSector(MaxTrackNum, 14)

C5_TrackRange ==
    /\ ~ValidTrack =>
          /\ out = << >>
          /\ pc \in {"reorder", "trackLoader", "panic"}
          /\ (pc = "panic" /\ ReorderFinished)
                => err = "illegal track number encountered"
    /\ ValidTrack =>
          /\ err # "illegal track number encountered"
          /\ ~(pc = "panic" /\ ReorderFinished /\ err = "index out of range")
          /\ pc \in {"clientLoop", "executeClient", "done"}
                => clientProgram[33] = trackNum

C5_Witness ==
    /\ pc = "panic"
    /\ err = "illegal track number encountered"
    /\ trackNum = NumTracks
    /\ ReorderFinished
    /\ out = << >>

----------------------------------------------------------------------------
\* C6 as stated (under SpecEncoder, where SEGMENT_SIZE is the count asked
\* for and diskImage the source): whenever start + count exceeds the source
\* length, also with the start past the end of the source, the encoder raises
\* no error and prints one line carrying exactly the source's bytes from the
\* start offset on.
C6_AsStated ==
    (pc \in {"done", "panic"}
     /\ sourceBytesStartPos + SEGMENT_SIZE > Len(diskImage))
        => /\ pc = "done"
           /\ Len(out) = 1
           /\ WellFormedBytes(out[1].text)
           /\ Payload(out[1])
                = SubSeq(diskImage, sourceBytesStartPos + 1, Len(diskImage))

\* C7 as stated: with an image shorter than the full 35 tracks and a valid
\* track the program never aborts, and ends having printed the execute
\* command.
C7_AsStated ==
    (fileLen < 35 * 16 * SectorBytes /\ ValidTrack)
        => /\ pc # "panic"
           /\ pc = "done" => out[Len(out)].site = "execute"

----------------------------------------------------------------------------
\* Sectors 1 to 14 of track t are swapped in pairs, or all as in the file.
PairsSwapped(t) ==
    \A p \in SwapPairs :
        /\ Sector(diskImage, t, p[1]) = FileSector(t, p[2])
        /\ Sector(diskImage, t, p[2]) = FileSector(t, p[1])

PairsAsInFile(t) ==
    \A s \in 1..14 : Sector(diskImage, t, s) = FileSector(t, s)

\* The stage a line belongs to.
StageOf(site) ==
    CASE site \in {"ramp", "main"} -> 1
      [] site = "client"           -> 2
      [] OTHER                     -> 3

C8_Order ==
    \* the reorder pass, and the moment it is through: nothing is printed, the
    \* tracks before the loop's track are swapped once, the others not yet
    /\ pc \in {"reorder", "trackLoader"} =>
          /\ out = << >>
          /\ Len(diskImage) = fileLen
          /\ \A t \in 0..34 :
                IF t < track THEN PairsSwapped(t)
                ELSE OffsetOf(t, 15, 0) <= fileLen => PairsAsInFile(t)
    \* a line is printed only after the pass is through
    /\ out # << >> =>
          /\ track = 35
          /\ pc \notin {"reorder", "trackLoader"}
    \* track loader lines, then client loader lines, then the execute line
    /\ \A j \in 1..Len(out) : \A i \in 1..(j - 1) :
          StageOf(out[i].site) <= StageOf(out[j].site)
    /\ \A i \in 1..Len(out) :
          out[i].site = "execute" => (i = Len(out) /\ pc = "done")
    /\ pc = "done" =>
          /\ out # << >>
          /\ out[Len(out)] = ExecuteLine
          /\ Len(LinesOf("execute")) = 1
          /\ LinesOf("client") # << >>
          /\ LinesOf("main") # << >>

\* C8: the pipeline is linear. The reorder pass swaps each track exactly once
\* and is through before the first line is printed; the track loader's lines
\* come before the client loader's; the execute line is printed once, last;
\* and no step after the reorder pass changes the image.
C8_LinearPipeline ==
    /\ []C8_Order
    /\ [][pc # "reorder" => diskImage' = diskImage]_vars

C8_Witness ==
    /\ pc = "done"
    /\ fileLen = 35 * 16 * SectorBytes
    /\ filePattern = "offset"
    /\ Len(LinesOf("execute")) = 1
    /\ Len(LinesOf("client")) = 7
    /\ Len(LinesOf("main")) = TrackBytes \div 8
    /\ diskImage # FileImage

----------------------------------------------------------------------------
\* The offset of the track parameter in the client program (0x20), and the
\* program's length.
TrackParameterOffset == 32
ClientProgramLength == 52

\* What the client loader's lines put at an address, if anything: the values
\* written there.
ValuesWrittenAt(addr) ==
    { Payload(LinesOf("client")[k])[addr - Address(LinesOf("client")[k]) + 1] :
        k \in { k \in 1..Len(LinesOf("client")) :
                  /\ Address(LinesOf("client")[k]) <= addr
                  /\ addr < Address(LinesOf("client")[k])
                            + Len(Payload(LinesOf("client")[k])) } }

ClientLoaderReturned == pc \in {"executeClient", "done"}

\* C9 (under SpecClient): for every track t in [0,34] the bytes the client
\* loader transfers have t at offset 0x20 (address 0x0C20), and every other
\* byte is what it is for track 0.
C9_TrackPatch ==
    (ClientLoaderReturned /\ ValidTrack)
        => LET stream == Payloads(LinesOf("client"))
           IN  /\ Len(stream) = ClientProgramLength
               /\ stream[TrackParameterOffset + 1] = trackNum
               /\ ValuesWrittenAt(3072 + TrackParameterOffset) = {trackNum}
               /\ \A i \in 1..ClientProgramLength :
                     i # TrackParameterOffset + 1
                        => stream[i] = ClientProgramBytes(0)[i]

C9_Witness ==
    /\ pc = "done"
    /\ trackNum = 5
    /\ SEGMENT_SIZE = 8
    /\ Payloads(LinesOf("client"))[33] = 5
    /\ ValuesWrittenAt(3104) = {5}

\* C10 (under SpecClient): for every valid track and every segment size
\* s >= 1 the client loader prints no ramp and ceil(L/s) lines, the k-th
\* (from 0) filling from 0x0C00 + k*s; together they carry the patched
\* program once, every line s bytes but the last, which carries what is left.
C10_ClientTransfer ==
    ValidTrack =>
        /\ pc # "panic"
        /\ ClientLoaderReturned =>
             LET lines == LinesOf("client")
                 n     == (ClientProgramLength + SEGMENT_SIZE - 1) \div SEGMENT_SIZE
             IN  /\ LinesOf("ramp") = << >>
                 /\ Len(lines) = n
                 /\ Len(clientProgram) = ClientProgramLength
                 /\ Payloads(lines) = clientProgram
                 /\ \A k \in 1..Len(lines) :
                       /\ WellFormedFill(lines[k])
                       /\ Address(lines[k]) = 3072 + (k - 1) * SEGMENT_SIZE
                       /\ Len(Payload(lines[k]))
                            = IF k < n THEN SEGMENT_SIZE
                              ELSE ClientProgramLength - (n - 1) * SEGMENT_SIZE

C10_Witness ==
    /\ pc = "executeClient"
    /\ ValidTrack
    /\ SEGMENT_SIZE = 8
    /\ Len(LinesOf("client")) = 7
    /\ Len(Payload(LinesOf("client")[7])) = 4

----------------------------------------------------------------------------
\* Every main line carries bytes of the requested track only, and fills
\* addresses of the track buffer (0x2000 to 0x2FFF in the program) only.
MainCommandsWithinTrack ==
    LET main == LinesOf("main")
    IN  \A k \in 1..Len(main) :
            /\ WellFormedBytes(main[k].text)
            /\ OffsetOf(trackNum, 0, 0) <= main[k].start
            /\ main[k].start + Len(Payload(main[k])) <= OffsetOf(trackNum + 1, 0, 0)
            /\ Payload(main[k])
                 = SubSeq(diskImage, main[k].start + 1,
                          main[k].start + Len(Payload(main[k])))
            /\ 8192 <= Address(main[k])
            /\ Address(main[k]) + Len(Payload(main[k])) <= 8192 + 16 * SectorBytes

\* C11 as stated: for every valid track, every segment size s >= 8, dividing
\* the track size or not, and a full image, the main commands of the track
\* loader transfer exactly the track size in total, every byte from the
\* requested track and to an address of the track buffer.
C11_AsStated ==
    (TrackLoaderReturned /\ ValidTrack /\ SEGMENT_SIZE >= 8
     /\ fileLen >= 35 * 16 * SectorBytes)
        => /\ Len(Payloads(LinesOf("main"))) = 16 * SectorBytes
           /\ MainCommandsWithinTrack

----------------------------------------------------------------------------
\* convertDiskImageFromProdosOrderToDos33Order called twice on one image: an
\* iteration of its loop in the first call ("convertOnce") or in the second
\* ("convertAgain").
ConvertTrack ==
    /\ pc \in {"convertOnce", "convertAgain"}
    /\ LET r == ReorderTrackBody(diskImage, track)
       IN  /\ diskImage' = r.img
           /\ track' = IF ~r.ok THEN track
                       ELSE IF track + 1 < NumTracks THEN track + 1
                       ELSE 0
           /\ pc' = IF ~r.ok THEN "panic"
                    ELSE IF track + 1 < NumTracks THEN pc
                    ELSE IF pc = "convertOnce" THEN "convertAgain"
                    ELSE "done"
           /\ err' = IF r.ok THEN err ELSE "index out of range"
    /\ UNCHANGED << fileLen, filePattern, trackNum, SEGMENT_SIZE, bytesWritten,
                    targetStartAddress, sourceBytesStartPos, firstCommand,
                    rampLine, clientProgram, out >>

\* Images of 35 tracks and more.
LongFileLengths ==
    {FullImageLen, FullImageLen + 1, FullImageLen + SectorBytes,
     FullImageLen + TrackBytes}

InitConvertTwice ==
    /\ pc = "convertOnce"
    /\ trackNum = 0
    /\ SEGMENT_SIZE = DefaultSegmentSize
    /\ fileLen \in LongFileLengths
    /\ filePattern \in FilePatterns
    /\ diskImage = readDiskImageFromFile(fileLen, filePattern)
    /\ LocalsUnset

NextConvertTwice == ConvertTrack

SpecConvertTwice == InitConvertTwice /\ [][NextConvertTwice]_vars

\* C12 (under SpecConvertTwice): on an image of at least 35 tracks the
\* reorder pass never panics, never changes the image's length nor a byte at
\* or after the end of track 34 (offset 0x23000 in the program), and after
\* the second pass every byte is what it was in the file.
C12_ReorderInvolution ==
    /\ pc # "panic"
    /\ Len(diskImage) = fileLen
    /\ \A i \in (35 * 16 * SectorBytes)..(fileLen - 1) :
          diskImage[i + 1] = FileByte(filePattern, i)
    /\ pc = "done" =>
          \A i \in 0..(fileLen - 1) : diskImage[i + 1] = FileByte(filePattern, i)

\* After the first pass the image differs from the file, after the second it
\* is the file again.
C12_Witness ==
    /\ pc = "done"
    /\ fileLen = 35 * 16 * SectorBytes + SectorBytes
    /\ filePattern = "offset"
    /\ diskImage = FileImage
    /\ ReorderTrackBody(diskImage, 0).img # diskImage

====
